---- MODULE Spec2Model ----
(***************************************************************************)
(* Great-circle angle J between a target direction and a roll-axis         *)
(* direction (src/main.py): azel_to_vec, angle_between and the driver      *)
(* script, with the binary64 arithmetic of numpy made explicit.            *)
(*                                                                         *)
(* Layers, bottom up:                                                      *)
(*   - naturals of any size, as little-endian sequences of 13-bit limbs    *)
(*     (TLC's own integers are 32 bits wide);                              *)
(*   - dyadic rationals sgn * man * 2^exp with exact +, -, *, comparison;  *)
(*   - binary64 values: dyadic rationals with a 53-bit significand, and    *)
(*     the IEEE-754 round-to-nearest-even operations +, -, *, /, sqrt;     *)
(*   - cos, sin, arccos evaluated with WorkLimbs limbs of working          *)
(*     precision and rounded to binary64;                                  *)
(*   - the two helpers of main.py and its driver script, one action per    *)
(*     statement.                                                          *)
(* Exponents are unbounded: no value of the runs modelled here is          *)
(* subnormal or overflows.  Negative zero is identified with zero.         *)
(*                                                                         *)
(* Intermediate values are handed on as operator parameters, and loops     *)
(* take several steps per level of recursion (a step leaves a finished     *)
(* state as it is): both keep TLC's evaluation shallow.                    *)
(***************************************************************************)
EXTENDS Integers, Sequences, FiniteSets, Bags, TLC

(***************************************************************************)
(* Naturals of any size: <<l1, ..., ln>> is l1 + l2*Base + ... with        *)
(* 0 <= li < Base and ln # 0; zero is <<>>.                                *)
(***************************************************************************)
Base == 2^13

Max(x, y) == IF x >= y THEN x ELSE y
Min(x, y) == IF x <= y THEN x ELSE y

Pow2(k) == 2^k

\* the number of bits of an integer 0 <= k < 2^30
IntBits(k) == Cardinality({n \in 0..29 : Pow2(n) <= k})

LimbBits == IntBits(Base - 1)

\* the largest element of a non-empty set of integers
MaxOf(S) == CHOOSE i \in S : \A j \in S : j <= i

Limb(a, i) == IF i >= 1 /\ i <= Len(a) THEN a[i] ELSE 0

\* a cut after the last of its limbs at the indices nz
TrimTo(a, nz) == IF nz = {} THEN <<>> ELSE SubSeq(a, 1, MaxOf(nz))

\* a without its leading zero limbs
Trim(a) ==
    IF a = <<>> THEN a
    ELSE IF a[Len(a)] # 0 THEN a
    ELSE TrimTo(a, {i \in 1..Len(a) : a[i] # 0})

\* A function on 1..n, tabulated: the same value, which TLC then holds as an
\* explicit sequence instead of re-evaluating its definition at each use.
Tab(f) == f \o <<>>

Zeros(n) == Tab([i \in 1..n |-> 0])

\* the sum of f[i] over the domain of f, every f[i] >= 0
SumOf(f) == BagCardinality([i \in DOMAIN f |-> f[i] + 1]) - Cardinality(DOMAIN f)

\* One pass of carrying: each column keeps what is below Base and takes what
\* the column under it has above.
CarryPass(cols) ==
    Tab([i \in 1..(Len(cols) + 1) |-> (Limb(cols, i) % Base) + (Limb(cols, i - 1) \div Base)])

\* whether a carry of one enters column i of columns that are all Base at
\* most: a column below it holds Base (they are G), and all the columns
\* between them hold Base - 1
CarryIn(cols, G, i) ==
    \E j \in G : j < i /\ \A k \in (j + 1)..(i - 1) : cols[k] = Base - 1

\* columns that are all Base at most, carried through
Settle(cols, G) ==
    Tab([i \in 1..(Len(cols) + 1) |->
            (Limb(cols, i) + (IF CarryIn(cols, G, i) THEN 1 ELSE 0)) % Base])

\* the limbs of the number whose i-th column holds cols[i], any natural
\* below 2^31: three passes bring every column to Base at most
RECURSIVE Carry(_)
Carry(cols) ==
    IF \A i \in 1..Len(cols) : cols[i] < Base THEN Trim(cols)
    ELSE IF \A i \in 1..Len(cols) : cols[i] <= Base
    THEN Trim(Settle(cols, {j \in 1..Len(cols) : cols[j] = Base}))
    ELSE Carry(CarryPass(cols))

FromInt(k) == Carry(<<k>>)

BAdd(a, b) ==
    IF a = <<>> THEN b
    ELSE IF b = <<>> THEN a
    ELSE Carry(Tab([i \in 1..Max(Len(a), Len(b)) |-> Limb(a, i) + Limb(b, i)]))

\* a - b for a >= b: a plus the complement of b plus one, less Base^Len(a)
BSub(a, b) ==
    IF a = <<>> \/ b = <<>> THEN a
    ELSE Trim(SubSeq(Carry(Tab([i \in 1..Len(a) |->
                  a[i] + (Base - 1 - Limb(b, i)) + (IF i = 1 THEN 1 ELSE 0)])),
                     1, Len(a)))

\* -1 or 1 as a < b or a > b at their highest limb that differs, limb i
CmpAt(a, b, i) == IF a[i] < b[i] THEN -1 ELSE 1

\* -1, 0, 1 as a < b, a = b, a > b
BCmp(a, b) ==
    IF a = b THEN 0
    ELSE IF Len(a) < Len(b) THEN -1
    ELSE IF Len(a) > Len(b) THEN 1
    ELSE CmpAt(a, b, MaxOf({j \in 1..Len(a) : a[j] # b[j]}))

\* a * k for 0 <= k < 2^17
BMulSmall(a, k) ==
    IF k = 0 \/ a = <<>> THEN <<>> ELSE Carry(Tab([i \in 1..Len(a) |-> a[i] * k]))

ShiftLimbs(a, n) == IF a = <<>> THEN a ELSE Zeros(n) \o a

DropLimbs(a, n) == IF n >= Len(a) THEN <<>> ELSE SubSeq(a, n + 1, Len(a))

\* column k of the schoolbook product: at most 30 products below 2^26
MulCol(a, b, k) ==
    SumOf([i \in Max(1, k - Len(b) + 1)..Min(Len(a), k) |-> a[i] * b[k - i + 1]])

BMul(a, b) ==
    IF a = <<>> \/ b = <<>> THEN <<>>
    ELSE Carry(Tab([k \in 1..(Len(a) + Len(b) - 1) |-> MulCol(a, b, k)]))

\* One limb of the division of a by 0 < d < 2^17, from the top limb down:
\* limb i is the next to take, r the remainder and q the quotient so far.
DivSmallStep(a, d, s) ==
    IF s.i = 0 THEN s
    ELSE [i |-> s.i - 1, r |-> (s.r * Base + a[s.i]) % d,
          q |-> <<(s.r * Base + a[s.i]) \div d>> \o s.q]

RECURSIVE DivSmallLoop(_, _, _)
DivSmallLoop(a, d, s) ==
    IF s.i = 0 THEN s.q
    ELSE DivSmallLoop(a, d, DivSmallStep(a, d, DivSmallStep(a, d,
                            DivSmallStep(a, d, DivSmallStep(a, d, s)))))

\* floor(a / d) for 0 < d < 2^17
BDivSmall(a, d) ==
    IF a = <<>> THEN a
    ELSE Trim(DivSmallLoop(a, d, [i |-> Len(a), r |-> 0, q |-> <<>>]))

ShiftLeft(a, k) == ShiftLimbs(BMulSmall(a, Pow2(k % LimbBits)), k \div LimbBits)

\* b shifted right by r < LimbBits bits
ShiftRightBits(b, r) ==
    Trim(Tab([i \in 1..Len(b) |->
            (b[i] \div Pow2(r)) + (Limb(b, i + 1) % Pow2(r)) * Pow2(LimbBits - r)]))

ShiftRight(a, k) ==
    IF a = <<>> THEN a
    ELSE ShiftRightBits(DropLimbs(a, k \div LimbBits), k % LimbBits)

BitLen(a) == IF a = <<>> THEN 0 ELSE LimbBits * (Len(a) - 1) + IntBits(a[Len(a)])

BitAt(a, i) == (Limb(a, i \div LimbBits + 1) \div Pow2(i % LimbBits)) % 2

\* whether the k lowest bits of a are all zero
LowBitsZero(a, k) ==
    IF k \div LimbBits >= Len(a) THEN a = <<>>
    ELSE /\ \A i \in 1..(k \div LimbBits) : a[i] = 0
         /\ a[k \div LimbBits + 1] % Pow2(k % LimbBits) = 0

\* the integer a < 2^31, of at most three limbs
ToInt(a) == Limb(a, 1) + Limb(a, 2) * Base + Limb(a, 3) * Base * Base

\* The largest q with q * b <= r, given an estimate qhat >= q that is at
\* most two too large.
FixDigit(b, r, qhat) ==
    IF BCmp(BMulSmall(b, qhat), r) <= 0 THEN qhat
    ELSE IF BCmp(BMulSmall(b, qhat - 1), r) <= 0 THEN qhat - 1
    ELSE qhat - 2

\* the state of a long division after the digit d, r1 being the remainder
\* with the limb just taken
DivTake(b, s, r1, d) ==
    [i |-> s.i - 1, r |-> BSub(r1, BMulSmall(b, d)), q |-> <<d>> \o s.q]

\* the digit is estimated from the two top limbs of the remainder: at most
\* two too large (Knuth, TAOCP 4.3.1, Theorem B)
DivDigit(b, s, r1) ==
    DivTake(b, s, r1,
            FixDigit(b, r1, Min(Base - 1,
                (Limb(r1, Len(b) + 1) * Base + Limb(r1, Len(b))) \div b[Len(b)])))

\* One limb of the long division of a by b, whose top limb is at least
\* Base / 2, from the top limb of a down: limb i is the next to take, r the
\* remainder and q the quotient so far.
DivStep(a, b, s) ==
    IF s.i = 0 THEN s ELSE DivDigit(b, s, Trim(<<a[s.i]>> \o s.r))

RECURSIVE DivLoop(_, _, _)
DivLoop(a, b, s) ==
    IF s.i = 0 THEN <<Trim(s.q), s.r = <<>> >>
    ELSE DivLoop(a, b, DivStep(a, b, DivStep(a, b, s)))

DivNormalized(a, b) == DivLoop(a, b, [i |-> Len(a), r |-> <<>>, q |-> <<>>])

\* <<floor(a / b), whether b divides a>> for b # 0
BDivMod(a, b) ==
    IF BCmp(a, b) < 0 THEN << <<>>, a = <<>> >>
    ELSE DivNormalized(ShiftLeft(a, LimbBits - IntBits(b[Len(b)])),
                       ShiftLeft(b, LimbBits - IntBits(b[Len(b)])))

BDiv(a, b) == BDivMod(a, b)[1]

\* floor(sqrt(k)) for an integer 0 < k < 2^30, by Newton's iteration from
\* x >= sqrt(k), decreasing
RECURSIVE IntSqrtFrom(_, _)
IntSqrtFrom(k, x) ==
    IF (x + k \div x) \div 2 >= x THEN x ELSE IntSqrtFrom(k, (x + k \div x) \div 2)

IntSqrt(k) == IF k = 0 THEN 0 ELSE IntSqrtFrom(k, Pow2((IntBits(k) + 1) \div 2))

\* the step of Newton's iteration from x, q being floor(n / x)
SqrtNext(x, q) == IF BCmp(q, x) >= 0 THEN x ELSE ShiftRight(BAdd(x, q), 1)

\* Newton's iteration for floor(sqrt(n)) from x >= sqrt(n), decreasing, y
\* being the step from x
RECURSIVE SqrtFrom(_, _, _)
SqrtFrom(n, x, y) == IF y = x THEN x ELSE SqrtFrom(n, y, SqrtNext(y, BDiv(n, y)))

\* the iteration from x0 * 2^k
SqrtScaled(n, x) == SqrtFrom(n, x, SqrtNext(x, BDiv(n, x)))

\* floor(sqrt(n)): the iteration starts from the root of the top 28 or 29
\* bits of n, plus one, scaled back: a value above sqrt(n) and close to it
BSqrt(n) ==
    IF Len(n) <= 2 THEN FromInt(IntSqrt(ToInt(n)))
    ELSE SqrtScaled(n,
             ShiftLeft(FromInt(IntSqrt(ToInt(ShiftRight(n, 2 * ((BitLen(n) - 27) \div 2)))) + 1),
                       (BitLen(n) - 27) \div 2))

(***************************************************************************)
(* Dyadic rationals sgn * man * 2^exp, sgn in {1, -1}, man a natural of    *)
(* any size, exp an integer; zero is DZero.  +, -, * are exact.            *)
(***************************************************************************)
Dy(s, m, e) == [sgn |-> s, man |-> m, exp |-> e]

DZero == Dy(1, <<>>, 0)

DFromInt(k) == IF k = 0 THEN DZero ELSE IF k < 0 THEN Dy(-1, FromInt(-k), 0) ELSE Dy(1, FromInt(k), 0)

DNeg(a) == IF a.man = <<>> THEN a ELSE Dy(-a.sgn, a.man, a.exp)

DAbs(a) == Dy(1, a.man, a.exp)

DSign(a) == IF a.man = <<>> THEN 0 ELSE a.sgn

DMul(a, b) ==
    IF a.man = <<>> \/ b.man = <<>> THEN DZero
    ELSE Dy(a.sgn * b.sgn, BMul(a.man, b.man), a.exp + b.exp)

\* sa * x * 2^e + sb * y * 2^e, c being BCmp(x, y)
DAddSigned(sa, sb, x, y, e, c) ==
    IF sa = sb THEN Dy(sa, BAdd(x, y), e)
    ELSE IF c = 0 THEN DZero
    ELSE IF c > 0 THEN Dy(sa, BSub(x, y), e)
    ELSE Dy(sb, BSub(y, x), e)

DAddAligned(sa, sb, x, y, e) == DAddSigned(sa, sb, x, y, e, BCmp(x, y))

DAdd(a, b) ==
    IF a.man = <<>> THEN b
    ELSE IF b.man = <<>> THEN a
    ELSE DAddAligned(a.sgn, b.sgn,
                     ShiftLeft(a.man, a.exp - Min(a.exp, b.exp)),
                     ShiftLeft(b.man, b.exp - Min(a.exp, b.exp)),
                     Min(a.exp, b.exp))

DSub(a, b) == DAdd(a, DNeg(b))

\* -1, 0, 1 as a < b, a = b, a > b
DCmp(a, b) == DSign(DSub(a, b))

DLt(a, b) == DCmp(a, b) < 0
DLe(a, b) == DCmp(a, b) <= 0

\* a * 2^k
DScale(a, k) == IF a.man = <<>> THEN a ELSE Dy(a.sgn, a.man, a.exp + k)

\* a with its significand cut (toward zero) to at most n bits
DTrunc(a, n) ==
    IF BitLen(a.man) <= n THEN a
    ELSE Dy(a.sgn, ShiftRight(a.man, BitLen(a.man) - n), a.exp + BitLen(a.man) - n)

(***************************************************************************)
(* binary64 (numpy's float64, the dtype of every number of main.py): a     *)
(* dyadic rational whose significand has exactly MantBits bits, or zero,   *)
(* or NaN.  Round53 is round-to-nearest, ties to even.                     *)
(***************************************************************************)
MantBits == 53

NaN == [sgn |-> 0, man |-> <<>>, exp |-> 0]

IsNaN(a) == a.sgn = 0

\* m * 2^e with m of MantBits bits, or of one more after a round-up to a
\* power of two
Renorm(s, m, e) ==
    IF BitLen(m) > MantBits THEN Dy(s, ShiftRight(m, 1), e + 1) ELSE Dy(s, m, e)

\* whether the natural m, cut by its k > 0 lowest bits to q, rounds up: the
\* bits cut are more than half a unit of q, or half and q is odd
RoundsUp(m, k, q) ==
    /\ BitAt(m, k - 1) = 1
    /\ (~LowBitsZero(m, k - 1) \/ Limb(q, 1) % 2 = 1)

\* q or q + 1, the natural m without its k > 0 lowest bits, rounded
Nearest(m, k, q) == IF RoundsUp(m, k, q) THEN BAdd(q, <<1>>) ELSE q

\* a, whose significand is k bits longer than MantBits
RoundBy(a, k) ==
    IF k <= 0 THEN Dy(a.sgn, ShiftLeft(a.man, -k), a.exp + k)
    ELSE Renorm(a.sgn, Nearest(a.man, k, ShiftRight(a.man, k)), a.exp + k)

Round53(a) == IF a.man = <<>> THEN DZero ELSE RoundBy(a, BitLen(a.man) - MantBits)

FFromInt(k) == Round53(DFromInt(k))

FNeg(a) == IF IsNaN(a) THEN NaN ELSE DNeg(a)

FAdd(a, b) == IF IsNaN(a) \/ IsNaN(b) THEN NaN ELSE Round53(DAdd(a, b))

FSub(a, b) == IF IsNaN(a) \/ IsNaN(b) THEN NaN ELSE Round53(DSub(a, b))

FMul(a, b) == IF IsNaN(a) \/ IsNaN(b) THEN NaN ELSE Round53(DMul(a, b))

\* s * q * 2^e rounded, q a natural cut toward zero: when it is not exact, a
\* last bit added to q records it
RoundCut(s, q, exact, e) ==
    IF exact THEN Round53(Dy(s, q, e))
    ELSE Round53(Dy(s, BAdd(ShiftLeft(q, 1), <<1>>), e - 1))

FDivFrom(s, qr, e) == RoundCut(s, qr[1], qr[2], e)

\* a / b: 60 more quotient bits than significand bits in the divisor.  x / 0
\* is given as NaN (numpy gives inf or nan with a warning).
FDiv(a, b) ==
    IF IsNaN(a) \/ IsNaN(b) \/ b.man = <<>> THEN NaN
    ELSE IF a.man = <<>> THEN DZero
    ELSE FDivFrom(a.sgn * b.sgn, BDivMod(ShiftLeft(a.man, 60), b.man), a.exp - b.exp - 60)

FSqrtRoot(n, r, e) == RoundCut(1, r, BMul(r, r) = n, e)

FSqrtOf(n, e) == FSqrtRoot(n, BSqrt(n), e)

\* sqrt(a): the integer square root of man * 2^k, k making the exponent
\* even.  sqrt of a negative is NaN.
FSqrt(a) ==
    IF IsNaN(a) \/ a.sgn < 0 THEN NaN
    ELSE IF a.man = <<>> THEN DZero
    ELSE FSqrtOf(ShiftLeft(a.man, 60 + (a.exp % 2)), (a.exp - 60 - (a.exp % 2)) \div 2)

\* np.maximum, np.minimum: NaN if either is
FMax(a, b) == IF IsNaN(a) \/ IsNaN(b) THEN NaN ELSE IF DLt(a, b) THEN b ELSE a
FMin(a, b) == IF IsNaN(a) \/ IsNaN(b) THEN NaN ELSE IF DLt(b, a) THEN b ELSE a

(***************************************************************************)
(* np.cos, np.sin, np.arccos on binary64: the real function, evaluated     *)
(* with WorkBits bits of working precision, rounded to binary64 (the       *)
(* correctly rounded result, which is what the library returns up to its   *)
(* last-bit error).                                                        *)
(***************************************************************************)
WorkLimbs == 7

WorkBits == WorkLimbs * LimbBits

\* pi, cut after 14 limbs (182 bits) of fraction
PiFracBits == 14 * LimbBits
PiMan ==
    <<1996, 1107, 4994, 4612, 3346, 3598, 3587, 3153, 1222, 4518, 6704, 1090,
      7594, 1159, 3>>

PiD == Dy(1, PiMan, -PiFracBits)
PiHalfD == Dy(1, PiMan, -PiFracBits - 1)

DOne == Dy(1, <<1>>, 0)
DHalf == Dy(1, <<1>>, -1)

\* floor(a * 2^f) for a >= 0: a as a fixed-point number with f fraction bits
ToFixed(a, f) ==
    IF a.exp + f >= 0 THEN ShiftLeft(a.man, a.exp + f)
    ELSE ShiftRight(a.man, -(a.exp + f))

\* floor(a * 2^10) as an integer, for dyadic 0 <= a < 2^20
Fixed10(a) == ToInt(ToFixed(a, 10))

\* the unit of the fixed-point numbers with WorkBits fraction bits
FixedOne == ShiftLimbs(<<1>>, WorkLimbs)

\* t - t*u/d1 + t*u^2/(d1*d2) - ..., where the term after the one of index n
\* is divided by (2n + 1 + odd)(2n + 2 + odd); all in fixed point with
\* WorkBits fraction bits.  p and q are the sums so far of the terms of even
\* and of odd index, the sum being p - q; t is the term of index n, and the
\* series ends with a term that is zero.
AltStep(u, odd, s) ==
    IF s.t = <<>> THEN s
    ELSE [t |-> BDivSmall(DropLimbs(BMul(s.t, u), WorkLimbs),
                          (2 * s.n + 1 + odd) * (2 * s.n + 2 + odd)),
          n |-> s.n + 1,
          p |-> IF s.n % 2 = 0 THEN BAdd(s.p, s.t) ELSE s.p,
          q |-> IF s.n % 2 = 1 THEN BAdd(s.q, s.t) ELSE s.q]

RECURSIVE AltLoop(_, _, _)
AltLoop(u, odd, s) ==
    IF s.t = <<>> THEN Dy(1, BSub(s.p, s.q), -WorkBits)
    ELSE AltLoop(u, odd, AltStep(u, odd, AltStep(u, odd, AltStep(u, odd, s))))

AltSeries(u, odd) == AltLoop(u, odd, [t |-> FixedOne, n |-> 0, p |-> <<>>, q |-> <<>>])

\* cos(rt) when odd = 0 and sin(rt) = rt * (1 - rt^2/3! + rt^4/5! - ...)
\* when odd = 1, s being the series in rt^2
KernelOf(rt, odd, s) == IF odd = 1 THEN DMul(rt, s) ELSE s

KernelCut(rt, odd) == KernelOf(rt, odd, AltSeries(ToFixed(DMul(rt, rt), WorkBits), odd))

\* sin(r) when odd = 1 and cos(r) when odd = 0, for a dyadic |r| <= pi/4 (a
\* little more does no harm)
Kernel(r, odd) == KernelCut(DTrunc(r, WorkBits), odd)

\* the multiple of pi/2 nearest to a >= 0: a / (pi/2) rounded to an integer,
\* computed with 10 fraction bits
Quadrants(a) == (Fixed10(a) + Fixed10(PiHalfD) \div 2) \div Fixed10(PiHalfD)

\* sin(a + shift * pi/2) for a >= 0 that is k * pi/2 + r: by the quadrant
\* (k + shift) % 4 it is sin r, cos r, -sin r, -cos r
ByQuadrant(q, r) == IF q >= 2 THEN DNeg(Kernel(r, 1 - (q % 2))) ELSE Kernel(r, 1 - (q % 2))

Shifted(a, k, shift) == ByQuadrant((k + shift) % 4, DSub(a, DMul(DFromInt(k), PiHalfD)))

\* sin(a + shift * pi/2) for a dyadic a >= 0
SinShifted(a, shift) == Shifted(a, Quadrants(a), shift)

\* sin is odd
SinReal(x) == IF x.sgn < 0 THEN DNeg(SinShifted(DAbs(x), 0)) ELSE SinShifted(x, 0)

\* cos x = sin(|x| + pi/2)
CosReal(x) == SinShifted(DAbs(x), 1)

sin(x) == IF IsNaN(x) THEN NaN ELSE Round53(SinReal(x))

cos(x) == IF IsNaN(x) THEN NaN ELSE Round53(CosReal(x))

\* t + t*u*1/(2*3) + t*u^2*(1*9)/(2*3*4*5) + ...: the term of index n is the
\* one before it times u (2n - 1)^2 / ((2n)(2n + 1)); fixed point; acc is the
\* sum so far, t the term of index n - 1, and the series ends with a term
\* that is zero.
AsinStep(u, s) ==
    IF s.t = <<>> THEN s
    ELSE [t |-> BDivSmall(BMulSmall(DropLimbs(BMul(s.t, u), WorkLimbs),
                                    (2 * s.n - 1) * (2 * s.n - 1)),
                          (2 * s.n) * (2 * s.n + 1)),
          n |-> s.n + 1,
          acc |-> BAdd(s.acc, s.t)]

RECURSIVE AsinLoop(_, _)
AsinLoop(u, s) ==
    IF s.t = <<>> THEN s.acc
    ELSE AsinLoop(u, AsinStep(u, AsinStep(u, AsinStep(u, s))))

AsinSeries(u) == AsinLoop(u, [t |-> FixedOne, n |-> 1, acc |-> <<>>])

\* arcsin(s) = s * (1 + u/6 + 3u^2/40 + ...) for dyadic s, u = s^2 <= 1/4
AsinKernel(s, u) == DMul(s, Dy(1, AsinSeries(ToFixed(u, WorkBits)), -WorkBits))

\* sqrt(m * 2^e) for m shifted to 2 WorkBits bits or more and e even, cut
DSqrtOf(m, e) == Dy(1, BSqrt(m), e \div 2)

\* sqrt(a) for dyadic a > 0, cut to WorkBits bits; k0 is the shift that
\* gives the significand 2 WorkBits bits
DSqrtBy(a, k0) ==
    DSqrtOf(ShiftLeft(a.man, k0 + ((a.exp - k0) % 2)), a.exp - k0 - ((a.exp - k0) % 2))

DSqrt(a) == DSqrtBy(a, Max(0, 2 * WorkBits - BitLen(a.man)))

\* arccos(c) from arcsin: pi/2 - arcsin(c) for |c| <= 1/2 (small), and by
\* arccos(c) = 2 arcsin(sqrt((1 - c)/2)), arccos(-c) = pi - arccos(c) beyond;
\* as is the arcsin
AcosOf(c, small, as) ==
    IF small THEN DSub(PiHalfD, as)
    ELSE IF c.sgn > 0 THEN DScale(as, 1)
    ELSE DSub(PiD, DScale(as, 1))

\* t is (1 - |c|) / 2
AcosBy(c, small, t) ==
    AcosOf(c, small, AsinKernel(IF small THEN DTrunc(c, WorkBits) ELSE DSqrt(t),
                                IF small THEN DMul(c, c) ELSE t))

\* arccos(c) for dyadic |c| < 1, d being 1 - |c|
AcosReal(c, d) == AcosBy(c, DSign(DSub(d, DHalf)) >= 0, DScale(d, -1))

\* np.arccos, d being 1 - |c|: NaN outside [-1, 1]
AcosCase(c, d) ==
    IF DSign(d) < 0 THEN NaN
    ELSE IF DSign(d) = 0 THEN (IF c.sgn > 0 THEN DZero ELSE Round53(PiD))
    ELSE Round53(AcosReal(c, d))

arccos(c) == IF IsNaN(c) THEN NaN ELSE AcosCase(c, DSub(DOne, DAbs(c)))

(***************************************************************************)
(* The numpy functions main.py calls, on binary64 scalars and on vectors    *)
(* <<x, y, z>> of three binary64 numbers.                                   *)
(***************************************************************************)
\* np.pi: the binary64 nearest to pi
pi == Round53(PiD)

One == FFromInt(1)

\* np.radians without the conversion
radians_none(x) == x

\* np.radians(x) is x * (pi / 180) and np.degrees(x) is x * (180 / pi), the
\* factor a binary64 constant
radians(x) == FMul(x, FDiv(pi, FFromInt(180)))

degrees(x) == FMul(x, FDiv(FFromInt(180), pi))

\* np.clip that lets every value through
clip_none(x, lo, hi) == x

\* np.clip(x, lo, hi) = minimum(maximum(x, lo), hi)
clip(x, lo, hi) == FMin(FMax(x, lo), hi)

\* np.dot with the last product taken from the first vector alone
dot_typo(v1, v2) ==
    FAdd(FAdd(FMul(v1[1], v2[1]), FMul(v1[2], v2[2])), FMul(v1[3], v1[3]))

\* np.dot of two vectors of three: the products summed from the left
dot(v1, v2) ==
    FAdd(FAdd(FMul(v1[1], v2[1]), FMul(v1[2], v2[2])), FMul(v1[3], v2[3]))

\* the sum of the absolute values in place of the Euclidean norm
norm_l1(v) == FAdd(FAdd(DAbs(v[1]), DAbs(v[2])), DAbs(v[3]))

\* np.linalg.norm of a vector: sqrt(dot(v, v))
norm(v) == FSqrt(dot(v, v))

\* the decimal string of t / 10^places: its sign, whole part and fraction
\* digits
Digits(neg, t, places) ==
    [nan |-> FALSE, neg |-> neg, whole |-> t \div 10^places, frac |-> t % 10^places]

\* n / 2^k rounded to the nearest integer, ties to even
RoundShift(n, k) ==
    IF k <= 0 THEN ShiftLeft(n, -k) ELSE Nearest(n, k, ShiftRight(n, k))

\* f"{x:.<places>f}": x rounded to the nearest multiple of 10^-places, ties
\* to even
Format(x, places) ==
    IF IsNaN(x) THEN [nan |-> TRUE, neg |-> FALSE, whole |-> 0, frac |-> 0]
    ELSE Digits(x.sgn < 0 /\ x.man # <<>>,
                ToInt(RoundShift(BMul(x.man, FromInt(10^places)), -x.exp)), places)

(***************************************************************************)
(* The helpers of main.py.                                                 *)
(***************************************************************************)
\* lines 22-25 with the azimuth ignored in x
Components_no_az(ce, az, el) == <<ce, FMul(ce, sin(az)), sin(el)>>

\* lines 22-25 with sin and cos of the azimuth exchanged
Components_swapped(ce, az, el) == <<FMul(ce, sin(az)), FMul(ce, cos(az)), sin(el)>>

\* lines 22-25: x, y, z from ce, and the array v of them
Components(ce, az, el) == <<FMul(ce, cos(az)), FMul(ce, sin(az)), sin(el)>>

\* lines 21-25: the local v of azel_to_vec, the vector before it is
\* normalised
RawVector(az, el) == Components(cos(el), az, el)

\* v / n, elementwise
Over(v, n) == <<FDiv(v[1], n), FDiv(v[2], n), FDiv(v[3], n)>>

\* line 26
Normalized(v) == Over(v, norm(v))

azel_to_vec(az, el) == Normalized(RawVector(az, el))

\* angle_between returning the clipped cosine itself
angle_between_cos(v1, v2) ==
    [ret |-> clip(dot(v1, v2), FNeg(One), One), v1 |-> v1, v2 |-> v2]

\* v1 *= v2, elementwise
Times(v1, v2) == <<FMul(v1[1], v2[1]), FMul(v1[2], v2[2]), FMul(v1[3], v2[3])>>

\* angle_between computing the products in place, in its first argument
angle_between_inplace(v1, v2) ==
    [ret |-> arccos(clip(dot(v1, v2), FNeg(One), One)), v1 |-> Times(v1, v2), v2 |-> v2]

\* A call of angle_between: what it returns, and what it leaves in the two
\* arrays it was passed (numpy arrays are passed by reference; the body
\* assigns to neither).
angle_between(v1, v2) ==
    [ret |-> arccos(clip(dot(v1, v2), FNeg(One), One)), v1 |-> v1, v2 |-> v2]

\* line 51 with the azimuths added
cosJ_trig_plus(AZ_T, EL_T, AZ_R, EL_R) ==
    FAdd(FMul(sin(EL_T), sin(EL_R)),
         FMul(FMul(cos(EL_T), cos(EL_R)), cos(FAdd(AZ_T, AZ_R))))

\* the right-hand side of line 51, the spherical law of cosines
cosJ_trig(AZ_T, EL_T, AZ_R, EL_R) ==
    FAdd(FMul(sin(EL_T), sin(EL_R)),
         FMul(FMul(cos(EL_T), cos(EL_R)), cos(FSub(AZ_T, AZ_R))))

\* the analytic angle of line 52, before its conversion to degrees
analytic_angle(c) == arccos(clip(c, FNeg(One), One))

(***************************************************************************)
(* The script: pc is the line of the statement to execute next, globals    *)
(* the module's namespace (the names assigned so far, with their values),  *)
(* stdout the lines printed, artists what has been drawn on the axes, and  *)
(* shown whether plt.show() has displayed the figure.                      *)
(*                                                                         *)
(* The last three variables belong to the function runs further down:      *)
(* case is the input of a run, stage its next call, and results the values *)
(* the calls made so far have returned.                                    *)
(***************************************************************************)
VARIABLES pc, globals, stdout, artists, shown, stage, case, results

vars == <<pc, globals, stdout, artists, shown, stage, case, results>>

\* The example angles of lines 35-36, which the script invites to edit: the
\* values of the source, and others.
TargetDegrees == {<<40, 25>>, <<0, 25>>, <<40, 90>>, <<0, 90>>}
RollAxisDegrees == {<<10, 5>>, <<40, 5>>, <<10, 25>>, <<40, 25>>}

\* the lines of the script's statements from line 38 on, in order
Lines ==
    <<38, 39, 42, 43, 46, 47, 51, 52, 54, 55, 58, 59, 61, 62, 63, 64, 65, 68,
      69, 70, 71, 74, 75, 78, 79, 80, 81, 82, 84, 85, 86, 87, 88, 89>>

LastLine == Lines[Len(Lines)]

\* A variant of NextLine: the plot is skipped when the cross-check value
\* differs from the angle.
NextLine_checked(line) ==
    IF line = LastLine THEN line + 1
    ELSE IF line = 55 /\ globals["J_deg"] # globals["J_trig"] THEN LastLine
    ELSE Lines[(CHOOSE i \in 1..Len(Lines) : Lines[i] = line) + 1]

\* The statement after the one at a line: the script is straight-line code,
\* without a branch, a loop or a call that could raise on these values.
NextLine(line) ==
    IF line = LastLine THEN line + 1
    ELSE Lines[(CHOOSE i \in 1..Len(Lines) : Lines[i] = line) + 1]

\* no function run is in progress
NoRun == stage = "none" /\ case = <<>> /\ results = <<>>

Init ==
    /\ \E t \in TargetDegrees, r \in RollAxisDegrees :
           globals = ("AZ_T_deg" :> FFromInt(t[1])) @@ ("EL_T_deg" :> FFromInt(t[2]))
                     @@ ("AZ_R_deg" :> FFromInt(r[1])) @@ ("EL_R_deg" :> FFromInt(r[2]))
    /\ pc = Lines[1]
    /\ stdout = <<>>
    /\ artists = <<>>
    /\ shown = FALSE
    /\ NoRun

\* an assignment statement at a line: the names bound, and nothing else
Assign(line, bindings) ==
    /\ pc = line
    /\ globals' = bindings @@ globals
    /\ pc' = NextLine(pc)
    /\ UNCHANGED <<stdout, artists, shown, stage, case, results>>

\* a drawing call on the axes at a line
Draw(line, artist) ==
    /\ pc = line
    /\ artists' = Append(artists, artist)
    /\ pc' = NextLine(pc)
    /\ UNCHANGED <<globals, stdout, shown, stage, case, results>>

L38 ==
    Assign(38, ("AZ_T" :> radians(globals["AZ_T_deg"]))
               @@ ("EL_T" :> radians(globals["EL_T_deg"])))

L39 ==
    Assign(39, ("AZ_R" :> radians(globals["AZ_R_deg"]))
               @@ ("EL_R" :> radians(globals["EL_R_deg"])))

L42 == Assign(42, "vT" :> azel_to_vec(globals["AZ_T"], globals["EL_T"]))

L43 == Assign(43, "vR" :> azel_to_vec(globals["AZ_R"], globals["EL_R"]))

\* name = angle_between(vT, vR): the call is handed the arrays vT and vR
\* themselves, and whatever it leaves in them is what the names hold after
Returned(line, name, call) ==
    Assign(line, (name :> call.ret) @@ ("vT" :> call.v1) @@ ("vR" :> call.v2))

L46 == Returned(46, "J", angle_between(globals["vT"], globals["vR"]))

L47 == Assign(47, "J_deg" :> degrees(globals["J"]))

L51 ==
    Assign(51, "cosJ_trig" :> cosJ_trig(globals["AZ_T"], globals["EL_T"],
                                        globals["AZ_R"], globals["EL_R"]))

L52 == Assign(52, "J_trig" :> degrees(analytic_angle(globals["cosJ_trig"])))

L54 ==
    /\ pc = 54
    /\ stdout' = Append(stdout, [AZ_T |-> Format(globals["AZ_T_deg"], 1),
                                 EL_T |-> Format(globals["EL_T_deg"], 1),
                                 AZ_R |-> Format(globals["AZ_R_deg"], 1),
                                 EL_R |-> Format(globals["EL_R_deg"], 1)])
    /\ pc' = NextLine(pc)
    /\ UNCHANGED <<globals, artists, shown, stage, case, results>>

L55 ==
    /\ pc = 55
    /\ stdout' = Append(stdout, [J |-> Format(globals["J_deg"], 3),
                                 check |-> Format(globals["J_trig"], 3)])
    /\ pc' = NextLine(pc)
    /\ UNCHANGED <<globals, artists, shown, stage, case, results>>

L58 == Assign(58, "fig" :> [figsize |-> <<7, 6>>])

L59 == Assign(59, "ax" :> [subplot |-> 111, projection |-> "3d"])

\* Lines 61-64, the points of the sphere: each array by its shape only
Mesh ==
    \/ Assign(61, ("u" :> <<60>>) @@ ("v" :> <<30>>))
    \/ Assign(62, "xs" :> globals["u"] \o globals["v"])
    \/ Assign(63, "ys" :> globals["u"] \o globals["v"])
    \/ Assign(64, "zs" :> globals["u"] \o globals["v"])

L65 ==
    Draw(65, [call |-> "plot_wireframe",
              data |-> <<globals["xs"], globals["ys"], globals["zs"]>>])

L68 == Assign(68, "L" :> FDiv(FFromInt(12), FFromInt(10)))

\* lines 69-71: the segments from the origin along x (North), y (East), z (Up)
AxisLine ==
    \E i \in 1..3 :
        Draw(68 + i, [call |-> "plot",
                      data |-> [j \in 1..3 |-> IF j = i THEN globals["L"] ELSE DZero]])

\* lines 74-75: the arrows of the roll axis and of the target
Quiver ==
    \/ Draw(74, [call |-> "quiver", data |-> globals["vR"]])
    \/ Draw(75, [call |-> "quiver", data |-> globals["vT"]])

Scaled(v) == [j \in 1..3 |-> FMul(v[j], FDiv(FFromInt(105), FFromInt(100)))]

\* lines 78-79: the labels at the arrow tips
Label ==
    \/ Draw(78, [call |-> "text", data |-> Scaled(globals["vR"]), s |-> "R"])
    \/ Draw(79, [call |-> "text", data |-> Scaled(globals["vT"]), s |-> "T"])

\* lines 80-82: the labels at the axis tips
AxisLabel ==
    \E i \in 1..3 :
        Draw(79 + i, [call |-> "text",
                      data |-> [j \in 1..3 |-> IF j = i THEN FDiv(FFromInt(105), FFromInt(100))
                                                ELSE DZero],
                      s |-> <<"N (AZ=0)", "E (AZ=90)", "Up">>[i]])

L84 == Draw(84, [call |-> "set_title"])

\* lines 85-87: the limits of the three axes
Limits == \E i \in 1..3 : Draw(84 + i, [call |-> <<"set_xlim", "set_ylim", "set_zlim">>[i]])

L88 == Draw(88, [call |-> "set_box_aspect"])

L89 ==
    /\ pc = 89
    /\ shown' = TRUE
    /\ pc' = NextLine(pc)
    /\ UNCHANGED <<globals, stdout, artists, stage, case, results>>

Next ==
    \/ L38 \/ L39 \/ L42 \/ L43 \/ L46 \/ L47 \/ L51 \/ L52 \/ L54 \/ L55
    \/ L58 \/ L59 \/ Mesh \/ L65 \/ L68 \/ AxisLine \/ Quiver \/ Label
    \/ AxisLabel \/ L84 \/ Limits \/ L88 \/ L89

Spec == Init /\ [][Next]_vars

(***************************************************************************)
(* Runs of the two functions on their own: a run takes two directions      *)
(* (kind "dirs"), encodes them and the opposite of the first, and takes    *)
(* the angles between the vectors and the analytic angle of lines 51-52;   *)
(* or it takes two vectors as they are given (kind "vecs"), which need not *)
(* be unit vectors.  results holds what each call returned.                *)
(***************************************************************************)
HalfPi == FDiv(pi, FFromInt(2))

\* azimuths and elevations in radians: the ends and the middle of
\* [-pi, pi] and of [-pi/2, pi/2], the target of line 35, a direction in
\* the opposite octant, and one value beyond each range
Azimuths ==
    {FNeg(pi), radians(FFromInt(-135)), FNeg(HalfPi), DZero, radians(FFromInt(40)), HalfPi, pi,
     FFromInt(4)}
Elevations ==
    {FNeg(HalfPi), radians(FFromInt(-60)), DZero, radians(FFromInt(25)), HalfPi, FFromInt(2)}

\* second directions <<az, el>>: North, the roll axis of line 36, the target
\* of line 35, South, and the direction of the opposite octant
SecondDirections ==
    {<<DZero, DZero>>, <<radians(FFromInt(10)), radians(FFromInt(5))>>,
     <<radians(FFromInt(40)), radians(FFromInt(25))>>, <<pi, DZero>>,
     <<radians(FFromInt(-135)), radians(FFromInt(-60))>>}

\* vectors of integers, of length one and not
IntVectors == {<<1, 0, 0>>, <<0, 1, 0>>, <<-1, 0, 0>>, <<2, 0, 0>>, <<0, -3, 0>>, <<1, 1, 1>>}

Vec(t) == <<FFromInt(t[1]), FFromInt(t[2]), FFromInt(t[3])>>

\* no script is running
NoScript == pc = 0 /\ globals = <<>> /\ stdout = <<>> /\ artists = <<>> /\ shown = FALSE

FnInit ==
    /\ NoScript
    /\ results = <<>>
    /\ \/ /\ stage = "encode1"
          /\ \E a \in Azimuths, e \in Elevations, d \in SecondDirections :
                 case = [kind |-> "dirs", az1 |-> a, el1 |-> e, az2 |-> d[1], el2 |-> d[2],
                         v1 |-> <<>>, v2 |-> <<>>]
       \/ /\ stage = "take"
          /\ \E s \in IntVectors, t \in IntVectors :
                 case = [kind |-> "vecs", az1 |-> DZero, el1 |-> DZero, az2 |-> DZero,
                         el2 |-> DZero, v1 |-> Vec(s), v2 |-> Vec(t)]

\* a step of a run: the values it adds to results
Call(from, to, returned) ==
    /\ stage = from
    /\ results' = returned @@ results
    /\ stage' = to
    /\ UNCHANGED <<pc, globals, stdout, artists, shown, case>>

\* the local v of azel_to_vec and the norm it divides by
Locals(v) == ("raw1" :> v) @@ ("n1" :> norm(v))

\* azel_to_vec on the first direction, with its locals
Encode1 ==
    Call("encode1", "encode2",
         Locals(RawVector(case.az1, case.el1)) @@ ("v1" :> azel_to_vec(case.az1, case.el1)))

Encode2 == Call("encode2", "opposite", "v2" :> azel_to_vec(case.az2, case.el2))

\* azel_to_vec(az + pi, -el)
EncodeOpposite ==
    Call("opposite", "forward", "opp" :> azel_to_vec(FAdd(case.az1, pi), FNeg(case.el1)))

TakeVectors == Call("take", "forward", ("v1" :> case.v1) @@ ("v2" :> case.v2))

AngleForward == Call("forward", "reverse", "fwd" :> angle_between(results["v1"], results["v2"]))

AngleReverse == Call("reverse", "self", "rev" :> angle_between(results["v2"], results["v1"]))

AngleSelf ==
    Call("self", IF case.kind = "dirs" THEN "antipodal" ELSE "done",
         "self" :> angle_between(results["v1"], results["v1"]))

AngleOpposite ==
    Call("antipodal", "analytic", "anti" :> angle_between(results["v1"], results["opp"]))

\* lines 51-52 without the conversion to degrees
Analytic ==
    Call("analytic", "done",
         "ana" :> analytic_angle(cosJ_trig(case.az1, case.el1, case.az2, case.el2)))

FnNext ==
    \/ Encode1 \/ Encode2 \/ EncodeOpposite \/ TakeVectors \/ AngleForward
    \/ AngleReverse \/ AngleSelf \/ AngleOpposite \/ Analytic

FnSpec == FnInit /\ [][FnNext]_vars

(***************************************************************************)
(* Properties.                                                             *)
(***************************************************************************)
Has(name) == name \in DOMAIN results

Bound(name) == name \in DOMAIN globals

Ten(k) == DFromInt(10^k)

\* |a - b| < 10^-k, for binary64 a and b that are numbers
Near(a, b, k) ==
    /\ ~IsNaN(a)
    /\ ~IsNaN(b)
    /\ DLt(DMul(DAbs(DSub(a, b)), Ten(k)), DOne)

NearVec(v, w, k) == \A i \in 1..3 : Near(v[i], w[i], k)

\* x^2 + y^2 + z^2, exactly
SquaredLength(v) == DAdd(DAdd(DMul(v[1], v[1]), DMul(v[2], v[2])), DMul(v[3], v[3]))

\* The squared length of v is within 10^-9 of 1, and so is its length, which
\* is nearer to 1 than its square.
IsUnit(v) == (\A i \in 1..3 : ~IsNaN(v[i])) /\ Near(SquaredLength(v), DOne, 9)

\* 0 <= a <= pi, pi the real number
InZeroPi(a) == ~IsNaN(a) /\ DSign(a) >= 0 /\ DLe(a, PiD)

\* the first and second direction of a run lie in [-pi, pi] x [-pi/2, pi/2]
InRange ==
    /\ case.kind = "dirs"
    /\ DLe(DAbs(case.az1), PiD) /\ DLe(DAbs(case.el1), PiHalfD)
    /\ DLe(DAbs(case.az2), PiD) /\ DLe(DAbs(case.el2), PiHalfD)

\* C1: for azimuths in [-pi, pi] and elevations in [-pi/2, pi/2], the angle
\* between the two encoded vectors and the analytic angle of the spherical
\* law of cosines differ by less than 1e-6 radians.
C1_DualMethodAgreement ==
    (InRange /\ Has("fwd") /\ Has("ana")) => Near(results["fwd"].ret, results["ana"], 6)

\* a run in range whose two angles are not the same binary64 number
C1_Witness ==
    /\ InRange /\ Has("fwd") /\ Has("ana")
    /\ results["fwd"].ret # results["ana"]
    /\ Near(results["fwd"].ret, results["ana"], 6)

\* the inputs of lines 35-36 as the source has them
SourceInputs ==
    /\ globals["AZ_T_deg"] = FFromInt(40) /\ globals["EL_T_deg"] = FFromInt(25)
    /\ globals["AZ_R_deg"] = FFromInt(10) /\ globals["EL_R_deg"] = FFromInt(5)

\* lo / 10 < a < hi / 10, a in degrees
BetweenTenths(a, lo, hi) ==
    /\ ~IsNaN(a)
    /\ DLt(DFromInt(lo), DMul(a, DFromInt(10)))
    /\ DLt(DMul(a, DFromInt(10)), DFromInt(hi))

\* two angles in degrees less than 1e-6 radians apart: |a - b| * pi * 10^6
\* is less than 180
MatchInRadians(a, b) ==
    /\ ~IsNaN(a)
    /\ ~IsNaN(b)
    /\ DLt(DMul(DMul(DAbs(DSub(a, b)), PiD), Ten(6)), DFromInt(180))

\* C2, as the code has it: for the inputs 40, 25, 10, 5 degrees, the angle
\* J_deg and the analytic angle J_trig are both between 35.0 and 35.1
\* degrees (35.042), and they are less than 1e-6 radians apart.
C2_ConcreteScenario ==
    (SourceInputs /\ Bound("J_deg") /\ Bound("J_trig")) =>
        /\ BetweenTenths(globals["J_deg"], 350, 351)
        /\ BetweenTenths(globals["J_trig"], 350, 351)
        /\ MatchInRadians(globals["J_deg"], globals["J_trig"])

\* the script has printed 35.042 for both angles
C2_Witness ==
    /\ SourceInputs
    /\ Len(stdout) = 2
    /\ stdout[2].J = [nan |-> FALSE, neg |-> FALSE, whole |-> 35, frac |-> 42]
    /\ stdout[2].check = stdout[2].J

\* C2 as stated: for the inputs 40, 25, 10, 5 degrees both angles are
\* between 31.4 and 31.5 degrees, and less than 1e-6 radians apart.
C2_AsStated ==
    (SourceInputs /\ Bound("J_deg") /\ Bound("J_trig")) =>
        /\ BetweenTenths(globals["J_deg"], 314, 315)
        /\ BetweenTenths(globals["J_trig"], 314, 315)
        /\ MatchInRadians(globals["J_deg"], globals["J_trig"])

\* the first direction of a run
FirstIs(az, el) == case.kind = "dirs" /\ case.az1 = az /\ case.el1 = el

North == <<One, DZero, DZero>>
East == <<DZero, One, DZero>>
Up == <<DZero, DZero, One>>

\* C3, as the code has it: azel_to_vec(0, 0) is (1, 0, 0) exactly, and
\* azel_to_vec(pi/2, 0) and azel_to_vec(0, pi/2), pi/2 being np.pi / 2, are
\* (0, 1, 0) and (0, 0, 1) to within 1e-9 in each component.
C3_Convention ==
    Has("v1") =>
        /\ FirstIs(DZero, DZero) => results["v1"] = North
        /\ FirstIs(HalfPi, DZero) => NearVec(results["v1"], East, 9)
        /\ FirstIs(DZero, HalfPi) => NearVec(results["v1"], Up, 9)

\* azel_to_vec(np.pi / 2, 0) has returned a vector with y = 1 and x # 0
C3_Witness ==
    /\ FirstIs(HalfPi, DZero)
    /\ Has("v1")
    /\ results["v1"][2] = One
    /\ results["v1"][1] # DZero

\* C3 as stated: the three vectors are exactly (1, 0, 0), (0, 1, 0) and
\* (0, 0, 1).
C3_AsStated ==
    Has("v1") =>
        /\ FirstIs(DZero, DZero) => results["v1"] = North
        /\ FirstIs(HalfPi, DZero) => results["v1"] = East
        /\ FirstIs(DZero, HalfPi) => results["v1"] = Up

\* v points where w does: no component changes its sign or becomes or
\* ceases to be zero, and each is within 1e-9
SameDirection(v, w) ==
    /\ \A i \in 1..3 : DSign(v[i]) = DSign(w[i])
    /\ NearVec(v, w, 9)

\* C4: for every (az, el) the vector azel_to_vec returns has norm 1 within
\* 1e-9; the vector before the normalisation has norm 1 within 1e-9 already,
\* so the norm divided by is not zero and the division leaves the direction
\* as it is.
C4_UnitLength ==
    Has("raw1") =>
        /\ IsUnit(results["v1"])
        /\ IsUnit(results["raw1"])
        /\ ~IsNaN(results["n1"]) /\ results["n1"] # DZero
        /\ Near(results["n1"], DOne, 9)
        /\ SameDirection(results["v1"], results["raw1"])

\* a direction has been encoded whose vector had a norm that is not the
\* binary64 number 1, and the normalisation has changed its last bits
C4_Witness ==
    /\ Has("n1")
    /\ results["n1"] # One
    /\ results["v1"] # results["raw1"]

\* the angles a run has taken
Angles == {results[n].ret : n \in {"fwd", "rev", "self", "anti"} \cap DOMAIN results}

\* C5: for every pair of vectors, of unit length or not, angle_between
\* returns a number in [0, pi].
C5_Range == \A a \in Angles : InZeroPi(a)

\* two vectors whose dot product is greater than 1, where the clamp acts,
\* have been given the angle 0
C5_Witness ==
    /\ case.kind = "vecs"
    /\ Has("fwd")
    /\ DLt(DOne, dot(case.v1, case.v2))
    /\ results["fwd"].ret = DZero

\* C6: for unit vectors v1 and v2, angle_between(v1, v2) and
\* angle_between(v2, v1) are the same number.
C6_Symmetry ==
    (Has("fwd") /\ Has("rev") /\ IsUnit(results["v1"]) /\ IsUnit(results["v2"])) =>
        results["fwd"].ret = results["rev"].ret

\* both angles of two different unit vectors at an angle that is not zero
C6_Witness ==
    /\ Has("fwd") /\ Has("rev")
    /\ IsUnit(results["v1"]) /\ IsUnit(results["v2"])
    /\ results["v1"] # results["v2"]
    /\ results["fwd"].ret # DZero
    /\ results["rev"].ret = results["fwd"].ret

Negated(v) == <<FNeg(v[1]), FNeg(v[2]), FNeg(v[3])>>

\* C7: for every (az, el), azel_to_vec(az + pi, -el) is the negation of
\* azel_to_vec(az, el) within 1e-9 in each component, and the angle between
\* the two is within 1e-6 of pi.
C7_Antipodal ==
    /\ Has("opp") => NearVec(results["opp"], Negated(results["v1"]), 9)
    /\ Has("anti") => Near(results["anti"].ret, PiD, 6)

\* the angle of a direction off the axes to its opposite has been taken
C7_Witness ==
    /\ FirstIs(radians(FFromInt(40)), radians(FFromInt(25)))
    /\ Has("anti")
    /\ \A i \in 1..3 : DSign(results["opp"][i]) = -DSign(results["v1"][i])
    /\ \A i \in 1..3 : DSign(results["v1"][i]) # 0

\* C8: for a unit vector v, angle_between(v, v) is within 1e-6 of 0.
C8_SelfSeparation ==
    (Has("self") /\ IsUnit(results["v1"])) => Near(results["self"].ret, DZero, 6)

\* the angle of an encoded vector to itself has been taken
C8_Witness ==
    /\ FirstIs(radians(FFromInt(40)), radians(FFromInt(25)))
    /\ Has("self")
    /\ IsUnit(results["v1"])
    /\ InZeroPi(results["self"].ret)

\* the lines of the statements
StatementLines == {Lines[i] : i \in 1..Len(Lines)}

\* the drawing calls: of lines 65, 69-71, 74-75, 78-79, 80-82, 84, 85-87, 88
DrawingCalls == 1 + 3 + 2 + 2 + 3 + 1 + 3 + 1

\* the order of the script in a state
OrderInv ==
    /\ Bound("J") => Bound("vT") /\ Bound("vR")
    /\ stdout # <<>> => Bound("J_deg") /\ Bound("J_trig")
    /\ Len(stdout) <= 2
    /\ Len(stdout) >= 1 => DOMAIN stdout[1] = {"AZ_T", "EL_T", "AZ_R", "EL_R"}
    /\ Len(stdout) = 2 => DOMAIN stdout[2] = {"J", "check"}
    /\ (Bound("fig") \/ artists # <<>> \/ shown) => Len(stdout) = 2
    /\ shown => Len(artists) = DrawingCalls /\ pc = LastLine + 1

\* a step of the script: it is not taken after the figure is shown, and it
\* leads to the statement on the next line with one, whatever the values
StepOrder ==
    /\ ~shown
    /\ pc \in StatementLines
    /\ pc' = IF pc = LastLine THEN pc + 1
             ELSE CHOOSE l \in StatementLines :
                      l > pc /\ \A m \in StatementLines : m > pc => l <= m

\* C9: both directions are encoded before angle_between is called, both
\* angles are computed before anything is printed, two lines are printed
\* (the four input angles, then the angle with its cross-check value), the
\* plot is built and shown only after them, every step leads to the next
\* statement whether or not the two angles agree, and showing the plot is
\* the last step.
C9_DriverOrdering == []OrderInv /\ [][StepOrder]_vars

\* a run has ended with the plot shown, after two lines, with two angles
\* that are not the same number
C9_Witness ==
    /\ shown
    /\ Len(stdout) = 2
    /\ Len(artists) = DrawingCalls
    /\ globals["J_deg"] # globals["J_trig"]

\* names a later step must not rebind
Watched ==
    {"vT", "vR", "J", "AZ_T", "EL_T", "AZ_R", "EL_R",
     "AZ_T_deg", "EL_T_deg", "AZ_R_deg", "EL_R_deg"}

\* a step keeps the value of every name of S that is bound
Keeps(S) == \A n \in S \cap DOMAIN globals : n \in DOMAIN globals' /\ globals'[n] = globals[n]

\* A step of the script: a call of azel_to_vec or of angle_between (lines
\* 42, 43, 46) changes nothing but the name its value is assigned to, and
\* once vT and vR are bound, they, J and the input angles keep their values.
Frame ==
    /\ pc \in {42, 43, 46} =>
           /\ Keeps(DOMAIN globals)
           /\ Cardinality(DOMAIN globals') = Cardinality(DOMAIN globals) + 1
           /\ UNCHANGED <<stdout, artists, shown>>
    /\ (Bound("vT") /\ Bound("vR")) => Keeps(Watched)

\* C10: azel_to_vec and angle_between change nothing but what they return
\* (the arrays passed to angle_between are as they were after the call), and
\* after vT and vR are assigned every step leaves vT, vR, J and the input
\* angles as they are.
C10_Purity == [][Frame]_vars

\* the labels at the arrow tips are drawn, and vT, vR and J are bound
C10_Witness ==
    /\ pc = 80
    /\ Bound("vT") /\ Bound("vR") /\ Bound("J")
    /\ Len(artists) = 8
====
